---- MODULE Spec2Model ----
(***************************************************************************)
(* Model of regress_cc.py: the Optimizers class (fromArgs, flatten, diff,  *)
(* regress), the reference predicate testPredicate and the __main__ block  *)
(* that prints the flattened result.                                       *)
(*                                                                         *)
(* Strings are sequences of one-character strings, dictionaries are        *)
(* sequences of <<key, value>> pairs in insertion order, and the objects'  *)
(* option dictionaries live in a heap so that two objects can hold the     *)
(* same dictionary.                                                        *)
(***************************************************************************)
EXTENDS Integers, Sequences, FiniteSets, TLC

(***************************************************************************)
(* Strings                                                                 *)
(***************************************************************************)
DashF == <<"-", "f">>
DashFNo == <<"-", "f", "n", "o", "-">>
Default == <<"[", "d", "e", "f", "a", "u", "l", "t", "]">>
Enabled == <<"[", "e", "n", "a", "b", "l", "e", "d", "]">>
Disabled == <<"[", "d", "i", "s", "a", "b", "l", "e", "d", "]">>
V1 == <<"=", "1">>
V2 == <<"=", "2">>

FA == <<"-", "f", "a">>
FB == <<"-", "f", "b">>
FCF == <<"-", "f", "c", "-", "f">>
FP == <<"-", "f", "p">>
FQ == <<"-", "f", "q">>
O2 == <<"-", "O", "2">>
O3 == <<"-", "O", "3">>
MX == <<"-", "m", "x">>
DashQ == <<"-", "Q">>
HelpOptimizers == <<"-", "-", "h", "e", "l", "p", "=", "o", "p", "t", "i", "m", "i", "z", "e", "r", "s">>

\* str.startswith
StartsWith(s, p) == Len(s) >= Len(p) /\ SubSeq(s, 1, Len(p)) = p

\* old occurs in s at index i
OccursAt(s, old, i) == i + Len(old) - 1 <= Len(s) /\ SubSeq(s, i, i + Len(old) - 1) = old

\* str.find: index of the leftmost occurrence, 0 when there is none
Find(s, old) ==
    IF \E i \in 1..Len(s) : OccursAt(s, old, i)
    THEN CHOOSE i \in 1..Len(s) : OccursAt(s, old, i) /\ \A j \in 1..(i - 1) : ~OccursAt(s, old, j)
    ELSE 0

\* str.replace( old, new ) without the count (mutant): every occurrence
RECURSIVE ReplaceEvery(_, _, _)
ReplaceEvery(s, old, new) ==
    LET i == Find(s, old)
    IN IF i = 0 THEN s
       ELSE SubSeq(s, 1, i - 1) \o new \o ReplaceEvery(SubSeq(s, i + Len(old), Len(s)), old, new)

\* str.replace( old, new, 1 ): only the leftmost occurrence is replaced
ReplaceOnce(s, old, new) ==
    LET i == Find(s, old)
    IN IF i = 0 THEN s
       ELSE SubSeq(s, 1, i - 1) \o new \o SubSeq(s, i + Len(old), Len(s))

\* separator.join( tokens )
RECURSIVE Join(_, _)
Join(sep, toks) ==
    IF toks = <<>> THEN <<>>
    ELSE IF Len(toks) = 1 THEN toks[1]
    ELSE toks[1] \o sep \o Join(sep, Tail(toks))

(***************************************************************************)
(* Dictionaries (insertion ordered)                                        *)
(***************************************************************************)
HasKey(d, k) == \E i \in 1..Len(d) : d[i][1] = k

\* d[ k ] for a key that is present
Get(d, k) == d[CHOOSE i \in 1..Len(d) : d[i][1] = k][2]

\* d[ k ] = v
Put(d, k, v) ==
    IF HasKey(d, k)
    THEN [i \in 1..Len(d) |-> IF d[i][1] = k THEN <<k, v>> ELSE d[i]]
    ELSE Append(d, <<k, v>>)

Keys(d) == {d[i][1] : i \in 1..Len(d)}

\* dict( pairs )
RECURSIVE DictOf(_)
DictOf(pairs) ==
    IF pairs = <<>> THEN <<>>
    ELSE LET n == Len(pairs)
         IN Put(DictOf(SubSeq(pairs, 1, n - 1)), pairs[n][1], pairs[n][2])

(***************************************************************************)
(* Argument iterables: a list can be iterated again, an iterator (the      *)
(* itertools.chain flatten returns) is empty once it has been consumed.    *)
(***************************************************************************)
List(toks) == [kind |-> "list", toks |-> toks]
Iterator(toks) == [kind |-> "iterator", toks |-> toks]
Consumed(a) == IF a.kind = "iterator" THEN Iterator(<<>>) ELSE a

(***************************************************************************)
(* The compiler process: <cc> <args...> -Q --help=optimizers.  A fixed,    *)
(* deterministic compiler: -O2 and -O3 switch groups of flags on, an       *)
(* explicit -fX / -fno-X / -fX=v overrides flag X, -mx selects a target    *)
(* that has no -fc-f flag.  Its report has a header line, one line per     *)
(* flag, a flag line without a state and a line that is no -f flag.        *)
(***************************************************************************)
GCC == <<"g", "c", "c">>

CompilerDefaults == << <<FA, Disabled>>, <<FB, Default>>, <<FCF, Disabled>>, <<FP, V1>> >>

\* the flag of st that the command line argument arg names, <<>> when none
FlagNamedBy(st, arg) ==
    LET hits == {i \in 1..Len(st) :
                    \/ arg = st[i][1]
                    \/ arg = ReplaceOnce(st[i][1], DashF, DashFNo)
                    \/ StartsWith(arg, st[i][1] \o <<"=">>)}
    IN IF hits = {} THEN <<>> ELSE st[CHOOSE i \in hits : TRUE][1]

ApplyArg(st, arg) ==
    LET name == FlagNamedBy(st, arg)
    IN IF arg = O2 THEN Put(Put(st, FA, Enabled), FCF, Enabled)
       ELSE IF arg = O3 THEN Put(Put(Put(st, FA, Enabled), FCF, Enabled), FB, Enabled)
       ELSE IF name = <<>> THEN st
       ELSE IF arg = name THEN Put(st, name, Enabled)
       ELSE IF StartsWith(arg, name \o <<"=">>) THEN Put(st, name, SubSeq(arg, Len(name) + 1, Len(arg)))
       ELSE Put(st, name, Disabled)

RECURSIVE ApplyArgs(_, _)
ApplyArgs(st, args) ==
    IF args = <<>> THEN st ELSE ApplyArgs(ApplyArg(st, Head(args)), Tail(args))

\* stdout of a successful compiler run, split into lines, each line split
\* at whitespace (str.splitlines, then str.split)
CompilerOutput(argv) ==
    LET args == SubSeq(argv, 2, Len(argv) - 2)
        st == ApplyArgs(CompilerDefaults, args)
        hasTarget == \E i \in 1..Len(args) : args[i] = MX
        keep(pair) == ~(hasTarget /\ pair[1] = FCF)
    IN << <<"The", "following", "options">> >>
       \o SelectSeq(st, keep)
       \o << <<FQ>>, <<MX, Enabled>> >>

(***************************************************************************)
(* class Optimizers                                                        *)
(***************************************************************************)
\* __init__: the object keeps the dictionary, the arguments and the
\* compiler it is given (no copy is made)
Optimizers(options, args, cc) == [options |-> options, args |-> args, cc |-> cc]

\* the filter of fromArgs: lines of exactly two tokens whose first token
\* starts with -f
IsFlagLine(line) == Len(line) = 2 /\ StartsWith(line[1], DashF)

\* fromArgs when the compiler exits 0.  The argument iterable is consumed
\* by building argv, and the object keeps that same iterable.
fromArgs(args, cc) ==
    LET argv == <<cc>> \o args.toks \o <<DashQ, HelpOptimizers>>
        lines == CompilerOutput(argv)
    IN Optimizers(DictOf(SelectSeq(lines, IsFlagLine)), Consumed(args), cc)

\* diff consumed to its end raises KeyError: some key of other is not in self
diffRaises(selfOptions, otherOptions) ==
    \E i \in 1..Len(otherOptions) : ~HasKey(selfOptions, otherOptions[i][1])

\* diff: the pairs of other whose value differs from self's, in other's order
diff(selfOptions, otherOptions) ==
    LET differs(pair) == Get(selfOptions, pair[1]) # pair[2]
    IN SelectSeq(otherOptions, differs)

\* transform (mutant): every -f of a disabled flag is rewritten
transformEvery(pair) ==
    IF pair[2] = Enabled THEN pair[1]
    ELSE IF pair[2] = Disabled THEN ReplaceEvery(pair[1], DashF, DashFNo)
    ELSE pair[1] \o pair[2]

\* transform, the local function of flatten
transform(pair) ==
    IF pair[2] = Enabled THEN pair[1]
    ELSE IF pair[2] = Disabled THEN ReplaceOnce(pair[1], DashF, DashFNo)
    ELSE pair[1] \o pair[2]

\* flatten raises KeyError when its result is consumed
flattenRaises(self) ==
    diffRaises(fromArgs(self.args, self.cc).options, self.options)

\* flatten when the compiler exits 0 and the result can be consumed: the
\* tokens of the iterator it returns.  self.args has been consumed by the
\* query before it is chained.
flatten(self) ==
    LET implied == fromArgs(self.args, self.cc)
        notDefault(pair) == pair[2] # Default
        delta == SelectSeq(diff(implied.options, self.options), notDefault)
    IN Iterator(Consumed(self.args).toks \o [i \in 1..Len(delta) |-> transform(delta[i])])

(***************************************************************************)
(* testPredicate: the commands of the predicate run in order, each with    *)
(* check = True and the timeout; the first one that exits non-zero or      *)
(* times out raises.  A CalledProcessError carries the captured output; a  *)
(* TimeoutExpired carries it only if the command wrote some before it was  *)
(* killed, and has stdout None otherwise.                                  *)
(***************************************************************************)
CmdResults == {"exit0", "nonzero", "timeout_output", "timeout_silent"}

RECURSIVE testPredicate(_)
testPredicate(cmds) ==
    IF cmds = <<>> THEN "exit0"
    ELSE IF Head(cmds) # "exit0" THEN Head(cmds)
    ELSE testPredicate(Tail(cmds))

(***************************************************************************)
(* Bounds and inputs                                                       *)
(***************************************************************************)
\* number of argument lists --begin and --end are drawn from
NumArgLists == 5
\* largest number of commands in the predicate
MaxCmds == 2

AllArgLists ==
    << <<>>, <<O2>>, <<MX>>, <<O3, FP \o V2>>, <<FB, O2>>, <<O2, MX>>, <<O3>> >>

ArgLists == {AllArgLists[i] : i \in {j \in 1..Len(AllArgLists) : j <= NumArgLists}}

CmdRuns == UNION {[1..n -> CmdResults] : n \in 1..MaxCmds}

\* --arg-separator (default)
Separator == <<" ">>

(***************************************************************************)
(* State                                                                   *)
(***************************************************************************)
VARIABLES
    heap,       \* address -> dictionary: the options dictionaries
    base,       \* Optimizers object (options is an address)
    reach,      \* Optimizers object (options is an address)
    result,     \* Optimizers object regress builds and returns
    it,         \* position of base.diff( reach ) in reach.options.items()
    key,        \* locals of the loop of regress
    value,
    original,
    pc,         \* "call", "loop", "try", "returned", "raised" (regress
                \* raised), "done" (printed), "exit1" (main died after regress)
    exc,        \* the exception that ended the run, "" when none
    stdout,     \* what main printed, <<>> before
    trials,     \* log: one record per trial
    baseBefore, \* base.options as it was when regress was called
    S,          \* flatten on its own: the set (options held by value)
    flatS,      \* list( S.flatten() )
    S2,         \* fromArgs( S.flatten(), S.cc )
    flatS2,     \* list( S2.flatten() )
    fpc         \* "idle", "start", "flattened", "refed", "reflattened", "raised"

rvars == <<heap, base, reach, result, it, key, value, original, pc, exc, stdout, trials, baseBefore>>
fvars == <<S, flatS, S2, flatS2, fpc>>
vars == <<rvars, fvars>>

BaseAddr == 1
ReachAddr == 2

None == [options |-> <<>>, args |-> List(<<>>), cc |-> <<>>]

\* the object with its dictionary read from the heap
Deref(obj) == [obj EXCEPT !.options = heap[obj.options]]

FlattenIdle ==
    /\ S = None
    /\ flatS = <<>>
    /\ S2 = None
    /\ flatS2 = <<>>
    /\ fpc = "idle"

\* main, lines 168-171: both sets come from compiler queries that succeeded
Init ==
    /\ \E b \in ArgLists, e \in ArgLists :
        /\ heap = [a \in {BaseAddr, ReachAddr} |->
                     IF a = BaseAddr THEN fromArgs(List(b), GCC).options
                     ELSE fromArgs(List(e), GCC).options]
        /\ base = Optimizers(BaseAddr, List(b), GCC)
        /\ reach = Optimizers(ReachAddr, List(e), GCC)
        /\ baseBefore = fromArgs(List(b), GCC).options
    /\ result = None
    /\ it = 0
    /\ key = <<>>
    /\ value = <<>>
    /\ original = <<>>
    /\ pc = "call"
    /\ exc = ""
    /\ stdout = <<>>
    /\ trials = <<>>
    /\ FlattenIdle

(***************************************************************************)
(* regress                                                                 *)
(***************************************************************************)
\* line 74: result = cls( base.options, reach.args, base.cc )
ResultOf(b, r) == Optimizers(b.options, r.args, b.cc)

Enter ==
    /\ pc = "call"
    /\ result' = ResultOf(base, reach)
    /\ pc' = "loop"
    /\ UNCHANGED <<heap, base, reach, it, key, value, original, exc, stdout, trials, baseBefore, fvars>>

\* The lazy filter of base.diff( reach ): the items of reach.options after
\* position it, tested one by one against base.options as it is now.
\* Skipped(j): items it+1 .. j-1 are in base and equal, so the filter drops them.
Skipped(j) ==
    \A i \in (it + 1)..(j - 1) :
        /\ HasKey(heap[base.options], heap[reach.options][i][1])
        /\ Get(heap[base.options], heap[reach.options][i][1]) = heap[reach.options][i][2]

\* line 79 (mutant): the old value is written
TentativeOld(orig, val) == orig

\* line 79: result.options[ key ] = value
Tentative(orig, val) == val

\* line 88 (mutant): the trial value stays
RevertedKeep(orig, val) == val

\* line 88: result.options[ key ] = original
Reverted(orig, val) == orig

\* line 87 (mutant): a bare except
CaughtAny(e) == TRUE

\* line 87: except subprocess.SubprocessError
Caught(e) == e \in {"CalledProcessError", "TimeoutExpired"}

\* lines 76-79: the next differing pair; the tentative change
NextTrial ==
    /\ pc = "loop"
    /\ \E j \in (it + 1)..Len(heap[reach.options]) :
        LET pair == heap[reach.options][j]
            orig == Get(heap[result.options], pair[1])
        IN /\ Skipped(j)
           /\ HasKey(heap[base.options], pair[1])
           /\ Get(heap[base.options], pair[1]) # pair[2]
           /\ it' = j
           /\ key' = pair[1]
           /\ value' = pair[2]
           /\ original' = orig
           /\ heap' = [heap EXCEPT ![result.options] = Put(@, pair[1], Tentative(orig, pair[2]))]
    /\ pc' = "try"
    /\ UNCHANGED <<base, reach, result, exc, stdout, trials, baseBefore, fvars>>

\* line 67 inside line 76: base.options[ name ] for a name base lacks
DiffKeyError ==
    /\ pc = "loop"
    /\ \E j \in (it + 1)..Len(heap[reach.options]) :
        /\ Skipped(j)
        /\ ~HasKey(heap[base.options], heap[reach.options][j][1])
        /\ it' = j
    /\ pc' = "raised"
    /\ exc' = "KeyError"
    /\ UNCHANGED <<heap, base, reach, result, key, value, original, stdout, trials, baseBefore, fvars>>

\* line 91: the diff is exhausted
Return ==
    /\ pc = "loop"
    /\ Skipped(Len(heap[reach.options]) + 1)
    /\ it' = Len(heap[reach.options])
    /\ pc' = "returned"
    /\ UNCHANGED <<heap, base, reach, result, key, value, original, exc, stdout, trials, baseBefore, fvars>>

Trial(handed, outcome) ==
    [key |-> key, value |-> value, original |-> original, handed |-> handed, outcome |-> outcome]

\* lines 87-89 for an exception e raised at line 84 whose stdout can be
\* decoded: caught, the flag is put back and the loop goes on; not caught,
\* it leaves regress
Handle(e) ==
    IF Caught(e)
    THEN /\ heap' = [heap EXCEPT ![result.options] = Put(@, key, Reverted(original, value))]
         /\ pc' = "loop"
         /\ exc' = exc
    ELSE /\ heap' = heap
         /\ pc' = "raised"
         /\ exc' = e

\* line 84, flatten: the compiler exits non-zero and fromArgs re-raises the
\* CalledProcessError (its stdout is the captured bytes)
TrialCompilerFails ==
    /\ pc = "try"
    /\ trials' = Append(trials, Trial(<<>>, "compiler_failed"))
    /\ Handle("CalledProcessError")
    /\ UNCHANGED <<base, reach, result, it, key, value, original, stdout, baseBefore, fvars>>

\* line 84 -> line 97: the predicate joins the tokens, the lazy diff of
\* flatten looks up a flag the implied set lacks
TrialKeyError ==
    /\ pc = "try"
    /\ flattenRaises(Deref(result))
    /\ trials' = Append(trials, Trial(<<>>, "KeyError"))
    /\ Handle("KeyError")
    /\ UNCHANGED <<base, reach, result, it, key, value, original, stdout, baseBefore, fvars>>

\* lines 84-85: every command of the predicate exits 0
TrialPass ==
    /\ pc = "try"
    /\ ~flattenRaises(Deref(result))
    /\ \E cmds \in CmdRuns : testPredicate(cmds) = "exit0"
    /\ trials' = Append(trials, Trial(flatten(Deref(result)).toks, "pass"))
    /\ pc' = "loop"
    /\ UNCHANGED <<heap, base, reach, result, it, key, value, original, exc, stdout, baseBefore, fvars>>

\* lines 87-89: a command exited non-zero (CalledProcessError) or timed out
\* after writing output (TimeoutExpired with stdout)
TrialFail ==
    /\ pc = "try"
    /\ ~flattenRaises(Deref(result))
    /\ \E cmds \in CmdRuns :
        /\ testPredicate(cmds) \in {"nonzero", "timeout_output"}
        /\ trials' = Append(trials, Trial(flatten(Deref(result)).toks, testPredicate(cmds)))
        /\ Handle(IF testPredicate(cmds) = "nonzero" THEN "CalledProcessError" ELSE "TimeoutExpired")
    /\ UNCHANGED <<base, reach, result, it, key, value, original, stdout, baseBefore, fvars>>

\* lines 87-89: a command timed out before writing anything: line 88
\* reverts, then e.stdout.decode at line 89 raises AttributeError (e.stdout
\* is None), which leaves regress
TrialFailNoOutput ==
    /\ pc = "try"
    /\ ~flattenRaises(Deref(result))
    /\ \E cmds \in CmdRuns : testPredicate(cmds) = "timeout_silent"
    /\ trials' = Append(trials, Trial(flatten(Deref(result)).toks, "timeout_silent"))
    /\ IF Caught("TimeoutExpired")
       THEN /\ heap' = [heap EXCEPT ![result.options] = Put(@, key, Reverted(original, value))]
            /\ exc' = "AttributeError"
       ELSE /\ heap' = heap
            /\ exc' = "TimeoutExpired"
    /\ pc' = "raised"
    /\ UNCHANGED <<base, reach, result, it, key, value, original, stdout, baseBefore, fvars>>

(***************************************************************************)
(* main, line 173: print( args.arg_separator.join( working.flatten() ) )   *)
(***************************************************************************)
WriteStdout ==
    /\ pc = "returned"
    /\ ~flattenRaises(Deref(result))
    /\ stdout' = Join(Separator, flatten(Deref(result)).toks)
    /\ pc' = "done"
    /\ UNCHANGED <<heap, base, reach, result, it, key, value, original, exc, trials, baseBefore, fvars>>

\* the compiler exits non-zero in the final flatten
WriteCompilerFails ==
    /\ pc = "returned"
    /\ pc' = "exit1"
    /\ exc' = "CalledProcessError"
    /\ UNCHANGED <<heap, base, reach, result, it, key, value, original, stdout, trials, baseBefore, fvars>>

\* join consumes the final flatten, which looks up a flag the implied set lacks
WriteKeyError ==
    /\ pc = "returned"
    /\ flattenRaises(Deref(result))
    /\ pc' = "exit1"
    /\ exc' = "KeyError"
    /\ UNCHANGED <<heap, base, reach, result, it, key, value, original, stdout, trials, baseBefore, fvars>>

Next ==
    \/ Enter
    \/ NextTrial
    \/ DiffKeyError
    \/ Return
    \/ TrialCompilerFails
    \/ TrialKeyError
    \/ TrialPass
    \/ TrialFail
    \/ TrialFailNoOutput
    \/ WriteStdout
    \/ WriteCompilerFails
    \/ WriteKeyError

Spec == Init /\ [][Next]_vars

(***************************************************************************)
(* flatten on its own: a set S with any options over the flags, bound to   *)
(* an argument list; list( S.flatten() ); S2 = fromArgs( S.flatten() ) or  *)
(* fromArgs( list( S.flatten() ) ); list( S2.flatten() ).  The compiler is *)
(* deterministic and exits 0 here.                                         *)
(***************************************************************************)
FlagNames == <<FA, FB, FCF, FP>>
Absent == <<>>
States == {Absent, Default, Enabled, Disabled, V2}

Reverse(s) == [i \in 1..Len(s) |-> s[Len(s) + 1 - i]]

\* the dictionary that gives flag FlagNames[i] the state f[i]
OptionsOf(f) ==
    LET present(pair) == pair[2] # Absent
    IN SelectSeq([i \in 1..Len(FlagNames) |-> <<FlagNames[i], f[i]>>], present)

RegressIdle ==
    /\ heap = [a \in {BaseAddr, ReachAddr} |-> <<>>]
    /\ base = None
    /\ reach = None
    /\ result = None
    /\ it = 0
    /\ key = <<>>
    /\ value = <<>>
    /\ original = <<>>
    /\ pc = "idle"
    /\ exc = ""
    /\ stdout = <<>>
    /\ trials = <<>>
    /\ baseBefore = <<>>

InitFlatten ==
    /\ RegressIdle
    /\ \E f \in [1..Len(FlagNames) -> States], a \in ArgLists, rev \in BOOLEAN :
        S = Optimizers(IF rev THEN Reverse(OptionsOf(f)) ELSE OptionsOf(f), List(a), GCC)
    /\ flatS = <<>>
    /\ S2 = None
    /\ flatS2 = <<>>
    /\ fpc = "start"

\* list( S.flatten() )
FlattenS ==
    /\ fpc = "start"
    /\ ~flattenRaises(S)
    /\ flatS' = flatten(S).toks
    /\ fpc' = "flattened"
    /\ UNCHANGED <<rvars, S, S2, flatS2>>

\* consuming S.flatten() raises KeyError
FlattenSKeyError ==
    /\ fpc = "start"
    /\ flattenRaises(S)
    /\ fpc' = "raised"
    /\ UNCHANGED <<rvars, S, flatS, S2, flatS2>>

\* S2 = fromArgs( S.flatten(), S.cc ): the iterator itself is the argument
Refeed ==
    /\ fpc = "flattened"
    /\ S2' = fromArgs(flatten(S), S.cc)
    /\ fpc' = "refed"
    /\ UNCHANGED <<rvars, S, flatS, flatS2>>

\* S2 = fromArgs( list( S.flatten() ), S.cc )
RefeedList ==
    /\ fpc = "flattened"
    /\ S2' = fromArgs(List(flatten(S).toks), S.cc)
    /\ fpc' = "refed"
    /\ UNCHANGED <<rvars, S, flatS, flatS2>>

\* list( S2.flatten() )
FlattenS2 ==
    /\ fpc = "refed"
    /\ ~flattenRaises(S2)
    /\ flatS2' = flatten(S2).toks
    /\ fpc' = "reflattened"
    /\ UNCHANGED <<rvars, S, flatS, S2>>

NextFlatten ==
    \/ FlattenS
    \/ FlattenSKeyError
    \/ Refeed
    \/ RefeedList
    \/ FlattenS2

SpecFlatten == InitFlatten /\ [][NextFlatten]_vars

(***************************************************************************)
(* Properties                                                              *)
(***************************************************************************)
Last(q) == q[Len(q)]

PredicateFailures == {"nonzero", "timeout_output", "timeout_silent"}

\* regress returned a result (main may have gone on to print or to die)
Returned == pc \in {"returned", "done", "exit1"}

\* regress is over, one way or the other
Ended == Returned \/ pc = "raised"

ReachOptions == heap[reach.options]

\* reach reports a flag base lacks
ReachHasUnknownFlag == ~(Keys(ReachOptions) \subseteq Keys(baseBefore))

\* the working set holds a flag the implied set for reach's arguments lacks
WorkingHasUnknownFlag ==
    ~(Keys(baseBefore) \subseteq Keys(fromArgs(reach.args, base.cc).options))

\* the names of base.diff( reach ) on base's options as they were at the
\* call, in reach's order (defined when reach reports no unknown flag)
DiffNamesBefore ==
    LET differs(pair) == Get(baseBefore, pair[1]) # pair[2]
        d == SelectSeq(ReachOptions, differs)
    IN [i \in 1..Len(d) |-> d[i][1]]

TrialNames == [i \in 1..Len(trials) |-> trials[i].key]

\* the names of the trials in which the predicate was called
PredicateCallNames ==
    LET called(t) == t.outcome # "compiler_failed"
        c == SelectSeq(trials, called)
    IN [i \in 1..Len(c) |-> c[i].key]

\* C1: a compiler failure in the re-query of a trial is fatal: the trial is
\* the last one and regress has raised the CalledProcessError.
C1_CompilerFailureIsFatal ==
    \A i \in 1..Len(trials) :
        trials[i].outcome = "compiler_failed"
            => (i = Len(trials) /\ pc = "raised" /\ exc = "CalledProcessError")

\* C2: from the call of regress on, base.options holds for every flag the
\* value it held before the call.
C2_BaseOptionsUntouched ==
    pc # "idle" => heap[base.options] = baseBefore

\* the exception that ended regress came out of the last trial (the diff
\* has not moved past that trial's flag)
RaisedInLastTrial ==
    /\ pc = "raised"
    /\ trials # <<>>
    /\ ReachOptions[it][1] = Last(trials).key

\* C3: every predicate failure is handled locally: the flag is put back
\* and nothing is propagated to the caller of regress.
C3_PredicateFailureHandledLocally ==
    (trials # <<>> /\ Last(trials).outcome \in PredicateFailures)
        => (/\ ~RaisedInLastTrial
            /\ pc = "loop" => Get(heap[result.options], Last(trials).key) = Last(trials).original)

\* C4: what is printed is an argument list the predicate accepted: the
\* list handed to it in some trial that passed.
C4_OutputPassedPredicate ==
    pc = "done" =>
        \E i \in 1..Len(trials) :
            /\ trials[i].outcome = "pass"
            /\ stdout = Join(Separator, trials[i].handed)

\* What does hold of the output: after a walk with an accepted trial it is
\* the list handed to the predicate in the last accepted trial; after a
\* walk without one it is base's options flattened against reach's
\* arguments, a list the predicate never saw.
OutputIsLastAccepted ==
    pc = "done" =>
        LET passed == {i \in 1..Len(trials) : trials[i].outcome = "pass"}
        IN IF passed = {}
           THEN stdout = Join(Separator, flatten(Optimizers(baseBefore, reach.args, base.cc)).toks)
           ELSE stdout = Join(Separator, trials[CHOOSE i \in passed : \A j \in passed : j <= i].handed)

\* C5: revert correctness: when no trial was accepted, the returned set has
\* for every flag of reach the value base had for it before the call.
C5_RevertCorrectness ==
    (Returned /\ \A i \in 1..Len(trials) : trials[i].outcome # "pass")
        => \A k \in Keys(ReachOptions) :
              /\ HasKey(heap[result.options], k)
              /\ Get(heap[result.options], k) = Get(baseBefore, k)

\* C5 witness: regress returned after two or more trials, each of which the
\* predicate rejected
C5_AllRejected ==
    /\ pc = "returned"
    /\ Len(trials) >= 2
    /\ \A i \in 1..Len(trials) : trials[i].outcome \in PredicateFailures
    /\ \E i \in 1..Len(trials) : trials[i].outcome = "timeout_output"

\* C6: accept-all correctness: when regress is over, reach reports no flag
\* base lacks and the predicate succeeded in every trial, the walk was
\* completed, the returned set has reach's value for every flag of reach
\* (so for every flag of the diff) and base's value for every other flag.
C6_AcceptAllCorrectness ==
    (Ended /\ ~ReachHasUnknownFlag /\ \A i \in 1..Len(trials) : trials[i].outcome = "pass")
        => /\ Returned
           /\ TrialNames = DiffNamesBefore
           /\ Keys(heap[result.options]) = Keys(baseBefore)
           /\ \A k \in Keys(baseBefore) :
                Get(heap[result.options], k) =
                    IF k \in Keys(ReachOptions) THEN Get(ReachOptions, k) ELSE Get(baseBefore, k)

\* C6 witness: regress returned after two or more trials, all accepted
C6_AllAccepted ==
    /\ pc = "returned"
    /\ Len(trials) >= 2
    /\ \A i \in 1..Len(trials) : trials[i].outcome = "pass"

\* C7: when regress has returned, the predicate was called exactly once for
\* each flag of the diff computed on base's options before the walk, in
\* reach's order, and for no other flag.
C7_PredicateOncePerDiffFlag ==
    Returned => PredicateCallNames = DiffNamesBefore

\* The trials themselves (whether or not the predicate is reached) follow
\* the diff computed before the walk: always a prefix of it, all of it at
\* the return.
TrialsFollowDiffBefore ==
    (pc # "idle" /\ ~ReachHasUnknownFlag)
        => /\ Len(TrialNames) <= Len(DiffNamesBefore)
           /\ TrialNames = SubSeq(DiffNamesBefore, 1, Len(TrialNames))
           /\ Returned => TrialNames = DiffNamesBefore

\* C9 as stated: whenever reach reports a flag base lacks, or the working
\* set holds a flag the implied set lacks, regress does not return a result.
C9_UnknownFlagAlwaysAborts ==
    (pc # "idle" /\ (ReachHasUnknownFlag \/ WorkingHasUnknownFlag)) => ~Returned

\* C9 amended: (a) when reach reports a flag base lacks, regress never
\* returns a result; (b) a trial in which the lookup error was raised is
\* the last one: regress has raised KeyError, and the flag was not put
\* back as after a predicate failure; (c) while the working set holds a
\* flag the implied set lacks, no trial gets as far as running a command of
\* the predicate: it ends in the lookup error unless the compiler failed.
C9_UnknownFlagFatalWhenLookedUp ==
    /\ (pc # "idle" /\ ReachHasUnknownFlag) => ~Returned
    /\ \A i \in 1..Len(trials) :
          trials[i].outcome = "KeyError"
              => /\ i = Len(trials)
                 /\ pc = "raised"
                 /\ exc = "KeyError"
                 /\ Get(heap[result.options], trials[i].key) = trials[i].value
    /\ (pc # "idle" /\ WorkingHasUnknownFlag)
          => \A i \in 1..Len(trials) : trials[i].outcome \in {"KeyError", "compiler_failed"}

\* C9 witness: the lookup error of flatten ended regress in a trial
C9_LookupErrorRaised ==
    /\ pc = "raised"
    /\ exc = "KeyError"
    /\ trials # <<>>
    /\ Last(trials).outcome = "KeyError"
    /\ WorkingHasUnknownFlag

(***************************************************************************)
(* Properties of flatten on its own (SpecFlatten)                          *)
(***************************************************************************)
\* positions of S.options that need an explicit token: the state is not
\* [default] and differs from the state implied by S.args alone
ExplicitAt(implied) ==
    {i \in 1..Len(S.options) :
        /\ S.options[i][2] # Default
        /\ S.options[i][2] # Get(implied, S.options[i][1])}

\* tok is the token the claim gives for the pair
TokenFor(tok, pair) ==
    LET name == pair[1]
        at == {i \in 1..Len(name) : OccursAt(name, DashF, i)}
    IN IF pair[2] = Enabled THEN tok = name
       ELSE IF pair[2] = Disabled
       THEN IF at = {} THEN tok = name
            ELSE \E i \in at :
                    /\ \A j \in at : i <= j
                    /\ Len(tok) = Len(name) + 3
                    /\ SubSeq(tok, 1, i - 1) = SubSeq(name, 1, i - 1)
                    /\ SubSeq(tok, i, i + 4) = DashFNo
                    /\ SubSeq(tok, i + 5, Len(tok)) = SubSeq(name, i + 2, Len(name))
       ELSE /\ Len(tok) = Len(name) + Len(pair[2])
            /\ SubSeq(tok, 1, Len(name)) = name
            /\ SubSeq(tok, Len(name) + 1, Len(tok)) = pair[2]

\* C8: the tokens of flatten are S.args, unchanged and in order, then one
\* token for each flag of S.options that is not [default] and differs from
\* the implied state, in the order of S.options: the bare name for
\* [enabled], the name with its leftmost -f rewritten to -fno- for
\* [disabled], the name followed by the value otherwise.
C8_FlattenContract ==
    fpc \in {"flattened", "refed", "reflattened"} =>
        LET implied == fromArgs(S.args, S.cc).options
            ex == ExplicitAt(implied)
            n == Len(S.args.toks)
        IN /\ Len(flatS) = n + Cardinality(ex)
           /\ SubSeq(flatS, 1, n) = S.args.toks
           /\ \A i \in ex :
                TokenFor(flatS[n + Cardinality({j \in ex : j <= i})], S.options[i])

\* C8 witness: a flattened set with arguments, whose four flags give an
\* [enabled] token, a [disabled] token for -fc-f and a valued token, the
\* fourth flag giving none
C8_FlattenedAllKinds ==
    /\ fpc = "flattened"
    /\ S.args.toks # <<>>
    /\ Len(S.options) = 4
    /\ Len(flatS) = Len(S.args.toks) + 3
    /\ \E i \in 1..Len(flatS) : flatS[i] = FB
    /\ \E i \in 1..Len(flatS) : flatS[i] = ReplaceOnce(FCF, DashF, DashFNo)
    /\ \E i \in 1..Len(flatS) : flatS[i] = FP \o V2

\* C10: idempotence of flatten: with S2 = fromArgs( S.flatten(), S.cc ), the
\* tokens of S2.flatten() are the tokens of S.flatten().
C10_FlattenIdempotent ==
    fpc = "reflattened" => flatS2 = flatS

\* The same with the tokens made a list first:
\* S2 = fromArgs( list( S.flatten() ), S.cc ).
FlattenIdempotentOnList ==
    (fpc = "reflattened" /\ S2.args.kind = "list") => flatS2 = flatS
====
